---- MODULE Spec2Model ----
(***************************************************************************)
(* Model of the Autosend Python SDK: the client (client.py), its error     *)
(* classes (errors.py) and the two resource classes (resources/sending.py, *)
(* resources/contacts.py).                                                 *)
(*                                                                         *)
(* Python values are tagged records [py |-> <type name>, v |-> <value>].   *)
(* A str is a sequence of one-character strings, so that splitting,        *)
(* stripping, searching and formatting are computed character by           *)
(* character. A list is a sequence, a dict a function from its keys.       *)
(***************************************************************************)
EXTENDS Integers, Sequences, FiniteSets, TLC

VARIABLES client, pc, call, sent, response, outcome, probe, probeOut

vars == <<client, pc, call, sent, response, outcome, probe, probeOut>>

(***************************************************************************)
(* Python values                                                           *)
(***************************************************************************)
None == [py |-> "NoneType", v |-> <<>>]

Str(chars) == [py |-> "str", v |-> chars]

PyInt(n) == [py |-> "int", v |-> n]

Bool(b) == [py |-> "bool", v |-> b]

List(items) == [py |-> "list", v |-> items]

Tuple(items) == [py |-> "tuple", v |-> items]

Dict(f) == [py |-> "dict", v |-> f]

\* bool(x): the truth value Python gives to x in `if x` / `not x`
Truthy(x) ==
    CASE x.py = "NoneType" -> FALSE
      [] x.py = "bool" -> x.v
      [] x.py = "int" -> x.v # 0
      [] x.py = "dict" -> DOMAIN x.v # {}
      [] OTHER -> Len(x.v) > 0

\* isinstance(x, cls) for the built-in classes the code tests for
isinstance(x, cls) == x.py = cls

\* len(x): defined for str, list, tuple and dict; TypeError otherwise
HasLen(x) == x.py \in {"str", "list", "tuple", "dict"}

len(x) == IF x.py = "dict" THEN Cardinality(DOMAIN x.v) ELSE Len(x.v)

(***************************************************************************)
(* str methods                                                             *)
(***************************************************************************)
SpaceChars == {" ", "\t", "\n", "\r", "\f"}

WordChars ==
    {"a", "b", "c", "d", "e", "f", "g", "h", "i", "j", "k", "l", "m",
     "n", "o", "p", "q", "r", "s", "t", "u", "v", "w", "x", "y", "z",
     "A", "B", "C", "D", "E", "F", "G", "H", "I", "J", "K", "L", "M",
     "N", "O", "P", "Q", "R", "S", "T", "U", "V", "W", "X", "Y", "Z",
     "0", "1", "2", "3", "4", "5", "6", "7", "8", "9", "_"}

UpperLetters ==
    <<"A", "B", "C", "D", "E", "F", "G", "H", "I", "J", "K", "L", "M",
      "N", "O", "P", "Q", "R", "S", "T", "U", "V", "W", "X", "Y", "Z">>

LowerLetters ==
    <<"a", "b", "c", "d", "e", "f", "g", "h", "i", "j", "k", "l", "m",
      "n", "o", "p", "q", "r", "s", "t", "u", "v", "w", "x", "y", "z">>

Digits == <<"0", "1", "2", "3", "4", "5", "6", "7", "8", "9">>

\* c in s
Contains(c, s) == \E i \in 1..Len(s) : s[i] = c

\* s.startswith(prefix)
startswith(s, prefix) ==
    /\ Len(s) >= Len(prefix)
    /\ \A i \in 1..Len(prefix) : s[i] = prefix[i]

\* s.strip(): s without its leading and trailing whitespace
strip(s) ==
    LET keep == {i \in 1..Len(s) : s[i] \notin SpaceChars}
    IN  IF keep = {} THEN <<>>
        ELSE LET lo == CHOOSE i \in keep : \A j \in keep : i <= j
                 hi == CHOOSE i \in keep : \A j \in keep : i >= j
             IN  SubSeq(s, lo, hi)

\* s.rstrip(chars): s without its trailing characters that are in chars
rstrip(s, chars) ==
    LET keep == {i \in 1..Len(s) : s[i] \notin chars}
    IN  IF keep = {} THEN <<>>
        ELSE SubSeq(s, 1, CHOOSE i \in keep : \A j \in keep : i >= j)

\* s.lower() on ASCII letters
LowerChar(c) ==
    IF \E i \in 1..Len(UpperLetters) : UpperLetters[i] = c
    THEN LowerLetters[CHOOSE i \in 1..Len(UpperLetters) : UpperLetters[i] = c]
    ELSE c

lower(s) == [i \in 1..Len(s) |-> LowerChar(s[i])]

\* str(n) for a non-negative int
RECURSIVE IntToStr(_)
IntToStr(n) ==
    IF n < 10 THEN <<Digits[n + 1]>>
    ELSE IntToStr(n \div 10) \o <<Digits[(n % 10) + 1]>>

(***************************************************************************)
(* errors.py                                                               *)
(***************************************************************************)
\* class -> its base classes, itself included
Bases ==
    [AutosendError       |-> {"AutosendError", "Exception"},
     AuthenticationError |-> {"AuthenticationError", "AutosendError",
                              "Exception"},
     RequestError        |-> {"RequestError", "AutosendError", "Exception"},
     ValidationError     |-> {"ValidationError", "AutosendError",
                              "Exception"}]

NoError == [kind |-> "ok"]

AutosendError(message) ==
    [kind |-> "raise", class |-> "AutosendError", message |-> message,
     cause |-> None]

AuthenticationError(message) ==
    [kind |-> "raise", class |-> "AuthenticationError", message |-> message,
     cause |-> None]

\* raise RequestError(message) from exc
RequestError(message, exc) ==
    [kind |-> "raise", class |-> "RequestError", message |-> message,
     cause |-> exc]

\* ValidationError(message, field=field, value=value); the message text is
\* named by its key, the attributes field and value are kept as given
ValidationError(message, field, value) ==
    [kind |-> "raise", class |-> "ValidationError", message |-> message,
     field |-> field, value |-> value, cause |-> None]

Returns(value) == [kind |-> "return", value |-> value]

Raised(e) == e.kind = "raise"

\* the first error of two checks run in sequence
Then(first, second) == IF Raised(first) THEN first ELSE second

(***************************************************************************)
(* client.py                                                               *)
(***************************************************************************)
DefaultBaseUrl ==
    <<"h", "t", "t", "p", "s", ":", "/", "/", "a", "p", "i", ".", "a", "u",
      "t", "o", "s", "e", "n", "d", ".", "c", "o", "m", "/", "v", "1">>

RequestTimeout == 15

\* __init__ testing only `not api_key`, without the api_key.strip() test
AutosendClient_init_blank_accepted(api_key, base_url) ==
    IF ~Truthy(api_key)
    THEN AuthenticationError(<<"A", "P", "I", " ", "k", "e", "y", " ", "c",
                               "a", "n", "n", "o", "t", " ", "b", "e", " ",
                               "e", "m", "p", "t", "y", ".">>)
    ELSE Returns([api_key  |-> strip(api_key.v),
                  base_url |-> rstrip(base_url.v, {"/"})])

\* AutosendClient.__init__: the client it builds, or the error it raises
AutosendClient_init(api_key, base_url) ==
    IF ~Truthy(api_key) \/ strip(api_key.v) = <<>>
    THEN AuthenticationError(<<"A", "P", "I", " ", "k", "e", "y", " ", "c",
                               "a", "n", "n", "o", "t", " ", "b", "e", " ",
                               "e", "m", "p", "t", "y", ".">>)
    ELSE Returns([api_key  |-> strip(api_key.v),
                  base_url |-> rstrip(base_url.v, {"/"})])

\* AutosendClient._headers
_headers(self) ==
    [Authorization |-> <<"B", "e", "a", "r", "e", "r", " ">> \o self.api_key,
     ContentType   |-> <<"a", "p", "p", "l", "i", "c", "a", "t", "i", "o",
                         "n", "/", "j", "s", "o", "n">>,
     Accept        |-> <<"a", "p", "p", "l", "i", "c", "a", "t", "i", "o",
                         "n", "/", "j", "s", "o", "n">>]

\* the arguments of the one requests.request(...) call of _request
HttpRequest(self, method, endpoint, kwargs) ==
    [method  |-> method,
     url     |-> self.base_url \o endpoint,
     headers |-> _headers(self),
     timeout |-> RequestTimeout,
     kwargs  |-> kwargs]

\* requests.Response.ok: raise_for_status() raises only for 400..599
response_ok(status_code) == ~(400 <= status_code /\ status_code < 600)

\* response.json() on the bodies the transport may return: a JSON string
\* without escapes, a JSON integer, {} , [] , null, true, false
JsonQuote == "\""

IsJsonString(text) ==
    /\ Len(text) >= 2
    /\ text[1] = JsonQuote
    /\ text[Len(text)] = JsonQuote
    /\ \A i \in 2..(Len(text) - 1) : text[i] \notin {JsonQuote, "\\"}

IsJsonInt(text) ==
    /\ Len(text) >= 1
    /\ \A i \in 1..Len(text) : \E d \in 1..10 : Digits[d] = text[i]
    /\ Len(text) > 1 => text[1] # "0"

DigitValue(c) == (CHOOSE d \in 1..10 : Digits[d] = c) - 1

RECURSIVE StrToInt(_)
StrToInt(text) ==
    IF Len(text) = 0 THEN 0
    ELSE 10 * StrToInt(SubSeq(text, 1, Len(text) - 1))
         + DigitValue(text[Len(text)])

JsonDecodes(text) ==
    \/ IsJsonString(text)
    \/ IsJsonInt(text)
    \/ text \in {<<"{", "}">>, <<"[", "]">>, <<"n", "u", "l", "l">>,
                 <<"t", "r", "u", "e">>, <<"f", "a", "l", "s", "e">>}

response_json(text) ==
    CASE IsJsonString(text) -> Str(SubSeq(text, 2, Len(text) - 1))
      [] IsJsonInt(text) -> PyInt(StrToInt(text))
      [] text = <<"{", "}">> -> Dict(<<>>)
      [] text = <<"[", "]">> -> List(<<>>)
      [] text = <<"n", "u", "l", "l">> -> None
      [] text = <<"t", "r", "u", "e">> -> Bool(TRUE)
      [] text = <<"f", "a", "l", "s", "e">> -> Bool(FALSE)

\* _request with the two status checks in the other order
_request_response_ok_first(resp) ==
    IF ~response_ok(resp.status_code)
    THEN AutosendError(<<"A", "P", "I", " ", "r", "e", "t", "u", "r", "n",
                         "e", "d", " ">> \o IntToStr(resp.status_code)
                       \o <<":", " ">> \o resp.text)
    ELSE IF resp.status_code = 401
    THEN AuthenticationError(<<"I", "n", "v", "a", "l", "i", "d">>)
    ELSE IF JsonDecodes(resp.text)
    THEN Returns(response_json(resp.text))
    ELSE Returns(Str(resp.text))

\* _request returning response.text without trying response.json()
_request_response_text_only(resp) ==
    IF resp.status_code = 401
    THEN AuthenticationError(<<"I", "n", "v", "a", "l", "i", "d">>)
    ELSE IF ~response_ok(resp.status_code)
    THEN AutosendError(<<"A", "P", "I", " ", "r", "e", "t", "u", "r", "n",
                         "e", "d", " ">> \o IntToStr(resp.status_code)
                       \o <<":", " ">> \o resp.text)
    ELSE Returns(Str(resp.text))

\* _request after requests.request returned a response (client.py 86-94)
_request_response(resp) ==
    IF resp.status_code = 401
    THEN AuthenticationError(<<"I", "n", "v", "a", "l", "i", "d", " ", "o",
                               "r", " ", "u", "n", "a", "u", "t", "h", "o",
                               "r", "i", "z", "e", "d", " ", "A", "P", "I",
                               " ", "k", "e", "y", ".">>)
    ELSE IF ~response_ok(resp.status_code)
    THEN AutosendError(<<"A", "P", "I", " ", "r", "e", "t", "u", "r", "n",
                         "e", "d", " ">> \o IntToStr(resp.status_code)
                       \o <<":", " ">> \o resp.text)
    ELSE IF JsonDecodes(resp.text)
    THEN Returns(response_json(resp.text))
    ELSE Returns(Str(resp.text))

\* _request raising RequestError without `from exc`
_request_except_no_cause(exc) ==
    RequestError(<<"H", "T", "T", "P", " ", "r", "e", "q", "u", "e", "s",
                   "t", " ", "f", "a", "i", "l", "e", "d">>, None)

\* _request when requests.request raised a RequestException (client.py 84-85)
_request_except(exc) ==
    RequestError(<<"H", "T", "T", "P", " ", "r", "e", "q", "u", "e", "s",
                   "t", " ", "f", "a", "i", "l", "e", "d", ":", " ">>
                 \o exc.text, exc)

(***************************************************************************)
(* resources/sending.py                                                    *)
(***************************************************************************)
MaxAttachments == 20

MaxRecipients == 100

\* the first index >= i of s that is past the end or not in class
RECURSIVE Skip(_, _, _)
Skip(s, i, class) ==
    IF i > Len(s) \/ s[i] \notin class THEN i ELSE Skip(s, i + 1, class)

\* a match of the pattern {{\s*(\w+)\s*}} starting at index i of s
PlaceholderAt(s, i) ==
    LET a == Skip(s, i + 2, SpaceChars)
        b == Skip(s, a, WordChars)
        c == Skip(s, b, SpaceChars)
    IN  [ok   |-> /\ i + 1 <= Len(s)
                  /\ s[i] = "{"
                  /\ s[i + 1] = "{"
                  /\ b > a
                  /\ c + 1 <= Len(s)
                  /\ s[c] = "}"
                  /\ s[c + 1] = "}",
         name |-> SubSeq(s, a, b - 1),
         end  |-> c + 2]

\* re.findall scans left to right and resumes after each match
RECURSIVE FindAll(_, _)
FindAll(s, i) ==
    IF i > Len(s) THEN {}
    ELSE LET m == PlaceholderAt(s, i)
         IN  IF m.ok THEN {m.name} \cup FindAll(s, m.end)
             ELSE FindAll(s, i + 1)

\* Sending._extract_placeholders
_extract_placeholders(html) == FindAll(html.v, 1)

\* list(a_set): the elements in some order
RECURSIVE SetToSeq(_)
SetToSeq(S) ==
    IF S = {} THEN <<>>
    ELSE LET x == CHOOSE y \in S : TRUE
         IN  <<x>> \o SetToSeq(S \ {x})

\* _validate_dynamic_data raising for unused keys instead of logging them
_validate_dynamic_data_extra_fails(html, dynamic_data) ==
    LET placeholders == _extract_placeholders(html)
        provided_keys == DOMAIN dynamic_data.v
        missing == placeholders \ provided_keys
        extra == provided_keys \ placeholders
    IN  IF missing # {} \/ extra # {}
        THEN ValidationError("Missing values for template placeholders",
                             "dynamicData",
                             List([i \in 1..Cardinality(missing) |->
                                     Str(SetToSeq(missing)[i])]))
        ELSE NoError

\* Sending._validate_dynamic_data
_validate_dynamic_data(html, dynamic_data) ==
    LET placeholders == _extract_placeholders(html)
        provided_keys == DOMAIN dynamic_data.v
        missing == placeholders \ provided_keys
    IN  IF missing # {}
        THEN ValidationError("Missing values for template placeholders",
                             "dynamicData",
                             List([i \in 1..Cardinality(missing) |->
                                     Str(SetToSeq(missing)[i])]))
        ELSE IF placeholders # {} /\ ~Truthy(dynamic_data)
        THEN ValidationError(
                 "HTML contains template placeholders but dynamicData is empty",
                 "dynamicData", None)
        ELSE NoError

\* the blocked_extensions set of _validate_attachments
blocked_extensions ==
    {<<".", "a", "d", "p">>, <<".", "a", "p", "p">>,
     <<".", "a", "s", "p">>, <<".", "b", "a", "s">>,
     <<".", "b", "a", "t">>, <<".", "c", "e", "r">>,
     <<".", "c", "h", "m">>, <<".", "c", "m", "d">>,
     <<".", "c", "o", "m">>, <<".", "c", "p", "l">>,
     <<".", "c", "r", "t">>, <<".", "c", "s", "h">>,
     <<".", "d", "e", "r">>, <<".", "e", "x", "e">>,
     <<".", "f", "x", "p">>, <<".", "g", "a", "d", "g", "e", "t">>,
     <<".", "h", "l", "p">>, <<".", "h", "t", "a">>,
     <<".", "i", "n", "f">>, <<".", "i", "n", "s">>,
     <<".", "i", "s", "p">>, <<".", "i", "t", "s">>, <<".", "j", "s">>,
     <<".", "j", "s", "e">>, <<".", "k", "s", "h">>,
     <<".", "l", "i", "b">>, <<".", "l", "n", "k">>,
     <<".", "m", "a", "d">>, <<".", "m", "a", "f">>,
     <<".", "m", "a", "g">>, <<".", "m", "a", "m">>,
     <<".", "m", "a", "q">>, <<".", "m", "a", "r">>,
     <<".", "m", "a", "s">>, <<".", "m", "a", "t">>,
     <<".", "m", "a", "u">>, <<".", "m", "a", "v">>,
     <<".", "m", "a", "w">>, <<".", "m", "d", "a">>,
     <<".", "m", "d", "b">>, <<".", "m", "d", "e">>,
     <<".", "m", "d", "t">>, <<".", "m", "d", "w">>,
     <<".", "m", "d", "z">>, <<".", "m", "s", "c">>,
     <<".", "m", "s", "h">>, <<".", "m", "s", "h", "1">>,
     <<".", "m", "s", "h", "2">>, <<".", "m", "s", "h", "x", "m", "l">>,
     <<".", "m", "s", "h", "1", "x", "m", "l">>,
     <<".", "m", "s", "h", "2", "x", "m", "l">>, <<".", "m", "s", "i">>,
     <<".", "m", "s", "p">>, <<".", "m", "s", "t">>,
     <<".", "o", "p", "s">>, <<".", "p", "c", "d">>,
     <<".", "p", "i", "f">>, <<".", "p", "l", "g">>,
     <<".", "p", "r", "f">>, <<".", "p", "r", "g">>,
     <<".", "r", "e", "g">>, <<".", "s", "c", "f">>,
     <<".", "s", "c", "r">>, <<".", "s", "c", "t">>,
     <<".", "s", "h", "b">>, <<".", "s", "h", "s">>,
     <<".", "s", "y", "s">>, <<".", "p", "s", "1">>,
     <<".", "p", "s", "1", "x", "m", "l">>, <<".", "p", "s", "2">>,
     <<".", "p", "s", "2", "x", "m", "l">>, <<".", "p", "s", "c", "1">>,
     <<".", "p", "s", "c", "2">>, <<".", "t", "m", "p">>,
     <<".", "u", "r", "l">>, <<".", "v", "b">>, <<".", "v", "b", "e">>,
     <<".", "v", "b", "s">>, <<".", "v", "p", "s">>,
     <<".", "v", "s", "m", "a", "c", "r", "o", "s">>,
     <<".", "v", "s", "s">>, <<".", "v", "s", "t">>,
     <<".", "v", "s", "w">>, <<".", "v", "x", "d">>, <<".", "w", "s">>,
     <<".", "w", "s", "c">>, <<".", "w", "s", "f">>,
     <<".", "w", "s", "h">>, <<".", "x", "n", "k">>}

\* file.get("filename", "")
filename_of(file) ==
    IF "filename" \in DOMAIN file.v THEN file.v["filename"] ELSE Str(<<>>)

\* the extension taken without .lower()
extension_of_case_sensitive(filename) ==
    IF Contains(".", filename)
    THEN LET last == CHOOSE i \in 1..Len(filename) :
                        /\ filename[i] = "."
                        /\ \A j \in (i + 1)..Len(filename) : filename[j] # "."
         IN  <<".">> \o SubSeq(filename, last + 1, Len(filename))
    ELSE <<>>

\* "." + filename.split(".")[-1].lower() if "." in filename else ""
extension_of(filename) ==
    IF Contains(".", filename)
    THEN LET last == CHOOSE i \in 1..Len(filename) :
                        /\ filename[i] = "."
                        /\ \A j \in (i + 1)..Len(filename) : filename[j] # "."
         IN  <<".">> \o lower(SubSeq(filename, last + 1, Len(filename)))
    ELSE <<>>

\* the least element of a non-empty set of indexes
First(indexes) == CHOOSE i \in indexes : \A j \in indexes : i <= j

\* the loop of _validate_attachments: it raises at the first blocked file
check_extensions(files) ==
    LET blocked == {i \in 1..Len(files) :
                      extension_of(filename_of(files[i]).v)
                        \in blocked_extensions}
    IN  IF blocked = {} THEN NoError
        ELSE ValidationError("Attachment type is not supported.",
                             "attachments", filename_of(files[First(blocked)]))

\* Sending._validate_attachments
_validate_attachments(attachments) ==
    IF ~Truthy(attachments) THEN NoError
    ELSE IF len(attachments) > MaxAttachments
    THEN ValidationError("A maximum of 20 attachments is allowed.",
                         "attachments", None)
    ELSE check_extensions(attachments.v)

\* Sending._validate_unsubscribe
_validate_unsubscribe(unsubscribe_url) ==
    IF /\ Truthy(unsubscribe_url)
       /\ ~startswith(unsubscribe_url.v, <<"h", "t", "t", "p", ":", "/", "/">>)
       /\ ~startswith(unsubscribe_url.v,
                      <<"h", "t", "t", "p", "s", ":", "/", "/">>)
    THEN ValidationError("Unsubscribe URL must start with http:// or https://",
                         "unsubscribeUrl", unsubscribe_url)
    ELSE NoError

\* d with d[k] = v added
SetItem(d, k, v) == (k :> v) @@ d

\* the unsubscribe dict built by send_email and send_bulk
unsubscribe_data(unsubscribe_url, unsubscribe_group_id) ==
    LET d0 == <<>>
        d1 == IF Truthy(unsubscribe_url)
              THEN SetItem(d0, "url", unsubscribe_url) ELSE d0
        d2 == IF Truthy(unsubscribe_group_id)
              THEN SetItem(d1, "groupId", unsubscribe_group_id) ELSE d1
    IN  Dict(d2)

\* the checks of send_email, in the order the code runs them
send_email_validate(a) ==
    Then(_validate_attachments(a.attachments),
    Then(_validate_dynamic_data(a.html, a.dynamic_data),
         _validate_unsubscribe(a.unsubscribe_url)))

\* send_email adding the replyTo key whether or not reply_to_email is given
send_email_payload_always_reply_to(a) ==
    LET p0 == [to          |-> Dict([email |-> a.to_email, name |-> a.to_name]),
               from        |-> Dict([email |-> a.from_email,
                                     name |-> a.from_name]),
               subject     |-> a.subject,
               html        |-> a.html,
               dynamicData |-> a.dynamic_data]
        p1 == SetItem(p0, "replyTo", Dict([email |-> a.reply_to_email]))
        p2 == IF Truthy(a.attachments)
              THEN SetItem(p1, "attachments", a.attachments) ELSE p1
        p3 == IF Truthy(a.unsubscribe_url) \/ Truthy(a.unsubscribe_group_id)
              THEN SetItem(p2, "unsubscribe",
                           unsubscribe_data(a.unsubscribe_url,
                                            a.unsubscribe_group_id))
              ELSE p2
    IN  Dict(p3)

\* the payload send_email builds
send_email_payload(a) ==
    LET p0 == [to          |-> Dict([email |-> a.to_email, name |-> a.to_name]),
               from        |-> Dict([email |-> a.from_email,
                                     name |-> a.from_name]),
               subject     |-> a.subject,
               html        |-> a.html,
               dynamicData |-> a.dynamic_data]
        p1 == IF Truthy(a.reply_to_email)
              THEN SetItem(p0, "replyTo", Dict([email |-> a.reply_to_email]))
              ELSE p0
        p2 == IF Truthy(a.attachments)
              THEN SetItem(p1, "attachments", a.attachments) ELSE p1
        p3 == IF Truthy(a.unsubscribe_url) \/ Truthy(a.unsubscribe_group_id)
              THEN SetItem(p2, "unsubscribe",
                           unsubscribe_data(a.unsubscribe_url,
                                            a.unsubscribe_group_id))
              ELSE p2
    IN  Dict(p3)

TypeError == [kind |-> "raise", class |-> "TypeError", cause |-> None]

\* the per-recipient loop of send_bulk: it raises at the first recipient
\* without an email key or without a name key
check_recipients(recipients) ==
    LET bad == {i \in 1..Len(recipients) :
                  \/ "email" \notin DOMAIN recipients[i].v
                  \/ "name" \notin DOMAIN recipients[i].v}
    IN  IF bad = {} THEN NoError
        ELSE ValidationError("Each recipient must include 'email' and 'name'.",
                             "recipients", recipients[First(bad)])

\* send_bulk with the limit test written >= instead of >
send_bulk_validate_off_by_one(a) ==
    IF ~HasLen(a.recipients) THEN TypeError
    ELSE IF ~Truthy(a.recipients)
    THEN ValidationError(
             "The recipients list must contain at least one recipient.",
             "recipients", None)
    ELSE IF len(a.recipients) >= MaxRecipients
    THEN ValidationError(
             "A maximum of 100 recipients is allowed for bulk email.",
             "recipients", None)
    ELSE Then(check_recipients(a.recipients.v),
         Then(_validate_dynamic_data(a.html, a.dynamic_data),
              _validate_unsubscribe(a.unsubscribe_url)))

\* the checks of send_bulk, in the order the code runs them
send_bulk_validate(a) ==
    IF ~HasLen(a.recipients) THEN TypeError
    ELSE IF ~Truthy(a.recipients)
    THEN ValidationError(
             "The recipients list must contain at least one recipient.",
             "recipients", None)
    ELSE IF len(a.recipients) > MaxRecipients
    THEN ValidationError(
             "A maximum of 100 recipients is allowed for bulk email.",
             "recipients", None)
    ELSE Then(check_recipients(a.recipients.v),
         Then(_validate_dynamic_data(a.html, a.dynamic_data),
              _validate_unsubscribe(a.unsubscribe_url)))

\* the payload send_bulk builds
send_bulk_payload(a) ==
    LET p0 == [recipients  |-> a.recipients,
               from        |-> Dict([email |-> a.from_email,
                                     name |-> a.from_name]),
               subject     |-> a.subject,
               html        |-> a.html,
               dynamicData |-> a.dynamic_data]
        p1 == IF Truthy(a.reply_to_email)
              THEN SetItem(p0, "replyTo", Dict([email |-> a.reply_to_email]))
              ELSE p0
        p2 == IF Truthy(a.unsubscribe_url) \/ Truthy(a.unsubscribe_group_id)
              THEN SetItem(p1, "unsubscribe",
                           unsubscribe_data(a.unsubscribe_url,
                                            a.unsubscribe_group_id))
              ELSE p1
    IN  Dict(p2)

(***************************************************************************)
(* resources/contacts.py                                                   *)
(***************************************************************************)
MaxContacts == 100

\* Contacts._validate_email
_validate_email(email, field) ==
    IF ~Truthy(email) \/ ~Contains("@", email.v)
    THEN ValidationError("Invalid email address.", field, email)
    ELSE NoError

\* Contacts._validate_non_empty
_validate_non_empty(value, field) ==
    IF ~Truthy(value) \/ strip(value.v) = <<>>
    THEN ValidationError("cannot be empty.", field, value)
    ELSE NoError

\* the checks shared by create_contact and upsert_contact
contact_validate(a) ==
    Then(_validate_email(a.email, "email"),
    Then(_validate_non_empty(a.first_name, "firstName"),
    Then(_validate_non_empty(a.last_name, "lastName"),
         IF ~isinstance(a.custom_fields, "NoneType")
            /\ ~isinstance(a.custom_fields, "dict")
         THEN ValidationError("custom_fields must be a dictionary.",
                              "customFields", None)
         ELSE NoError)))

\* the payload create_contact and upsert_contact build
contact_payload(a) ==
    LET p0 == [email     |-> a.email,
               firstName |-> a.first_name,
               lastName  |-> a.last_name]
        p1 == IF Truthy(a.user_id) THEN SetItem(p0, "userId", a.user_id)
              ELSE p0
        p2 == IF Truthy(a.custom_fields)
              THEN SetItem(p1, "customFields", a.custom_fields) ELSE p1
    IN  Dict(p2)

\* for email in emails: self._validate_email(email); it raises at the first
\* email that fails
check_emails(emails) ==
    LET bad == {i \in 1..Len(emails) :
                  Raised(_validate_email(emails[i], "email"))}
    IN  IF bad = {} THEN NoError
        ELSE _validate_email(emails[First(bad)], "email")

\* remove_contacts and search_by_emails without the test for an empty list
emails_validate_allows_empty(emails) ==
    IF ~HasLen(emails) THEN TypeError
    ELSE check_emails(emails.v)

\* the checks shared by remove_contacts and search_by_emails
emails_validate(emails) ==
    IF ~HasLen(emails) THEN TypeError
    ELSE IF ~Truthy(emails)
    THEN ValidationError("At least one email is required.", "emails", None)
    ELSE check_emails(emails.v)

\* what the loop body of bulk_update does with one contact
check_contact(contact) ==
    IF "email" \notin DOMAIN contact.v
    THEN ValidationError("Contact must contain an email field.",
                         "contacts", contact)
    ELSE _validate_email(contact.v["email"], "email")

\* the per-contact loop of bulk_update: it raises at the first contact
\* that fails
check_contacts(contacts) ==
    LET bad == {idx \in 1..Len(contacts) : Raised(check_contact(contacts[idx]))}
    IN  IF bad = {} THEN NoError
        ELSE check_contact(contacts[First(bad)])

\* bulk_update without the test of the maximum number of contacts
bulk_update_validate_unbounded(a) ==
    IF ~HasLen(a.contacts) THEN TypeError
    ELSE IF ~Truthy(a.contacts)
    THEN ValidationError("Contacts list cannot be empty.", "contacts", None)
    ELSE IF ~isinstance(a.contacts, "list")
    THEN ValidationError("Contacts must be a list.", "contacts", None)
    ELSE check_contacts(a.contacts.v)

\* the checks of bulk_update, in the order the code runs them
bulk_update_validate(a) ==
    IF ~HasLen(a.contacts) THEN TypeError
    ELSE IF ~Truthy(a.contacts)
    THEN ValidationError("Contacts list cannot be empty.", "contacts", None)
    ELSE IF ~isinstance(a.contacts, "list")
    THEN ValidationError("Contacts must be a list.", "contacts", None)
    ELSE IF len(a.contacts) > MaxContacts
    THEN ValidationError("Cannot update more than 100 contacts per request.",
                         "contacts", PyInt(len(a.contacts)))
    ELSE check_contacts(a.contacts.v)

\* the payload bulk_update builds
bulk_update_payload(a) ==
    Dict([contacts |-> a.contacts, runWorkflow |-> a.run_workflow])

(***************************************************************************)
(* Inputs of the calls                                                     *)
(***************************************************************************)
NumThreads == 2

Threads == 1..NumThreads

\* the thread that makes the calls of Spec, one after the other
MainThread == CHOOSE t \in Threads : \A u \in Threads : t <= u

Replicate(x, n) == [i \in 1..n |-> x]

GoodEmail == Str(<<"a", "@", "x", ".", "c", "o", "m">>)

BadEmail == Str(<<"a", ".", "x", ".", "c", "o", "m">>)

EmptyStr == Str(<<>>)

BlankStr == Str(<<" ">>)

SomeName == Str(<<"A", "l">>)

HiName == Str(<<"H", "i", " ", "{", "{", "n", "a", "m", "e", "}", "}">>)

PlainHtml == Str(<<"H", "e", "l", "l", "o">>)

NameKey == <<"n", "a", "m", "e">>

NoData == Dict(<<>>)

NameData == Dict((NameKey :> SomeName))

TextFile == Dict([filename |-> Str(<<"r", "e", "p", "o", "r", "t", ".", "t",
                                     "x", "t">>)])

ExeFile == Dict([filename |-> Str(<<"s", "e", "t", "u", "p", ".", "E", "X",
                                    "E">>)])

HttpsUrl == Str(<<"h", "t", "t", "p", "s", ":", "/", "/", "x", ".", "c", "o",
                  "m", "/", "u">>)

FtpUrl == Str(<<"f", "t", "p", ":", "/", "/", "x", ".", "c", "o", "m", "/",
                "u">>)

GroupId == Str(<<"g", "r", "p", "1">>)

UserId == Str(<<"u", "s", "e", "r", "_", "1">>)

ContactId == Str(<<"c", "o", "n", "t", "a", "c", "t", "_", "1">>)

GoodRecipient == Dict([email |-> GoodEmail, name |-> SomeName])

BadEmailRecipient == Dict([email |-> BadEmail, name |-> SomeName])

EmptyEmailRecipient == Dict([email |-> EmptyStr, name |-> SomeName])

NamelessRecipient == Dict([email |-> GoodEmail])

EmaillessRecipient == Dict([name |-> SomeName])

SendEmailArgs ==
    {[to_email |-> e, to_name |-> SomeName, from_email |-> GoodEmail,
      from_name |-> SomeName, subject |-> PlainHtml, html |-> h,
      dynamic_data |-> d, reply_to_email |-> r, attachments |-> at,
      unsubscribe_url |-> u, unsubscribe_group_id |-> g] :
        e \in {GoodEmail, BadEmail},
        h \in {HiName, PlainHtml},
        d \in {NoData, NameData},
        r \in {None, GoodEmail},
        at \in {None, List(<<TextFile>>), List(<<TextFile, ExeFile>>),
                List(Replicate(TextFile, MaxAttachments + 1))},
        u \in {None, HttpsUrl, FtpUrl},
        g \in {None, GroupId}}

SendBulkArgs ==
    {[recipients |-> rs, from_email |-> GoodEmail, from_name |-> SomeName,
      subject |-> PlainHtml, html |-> h, dynamic_data |-> d,
      reply_to_email |-> None, unsubscribe_url |-> u,
      unsubscribe_group_id |-> None] :
        rs \in {List(<<>>), List(<<GoodRecipient>>),
                List(<<GoodRecipient, BadEmailRecipient>>),
                List(<<EmptyEmailRecipient>>),
                List(<<GoodRecipient, NamelessRecipient>>),
                List(<<EmaillessRecipient>>),
                List(Replicate(GoodRecipient, MaxRecipients)),
                List(Replicate(GoodRecipient, MaxRecipients + 1))},
        h \in {HiName, PlainHtml},
        d \in {NoData, NameData},
        u \in {None, FtpUrl}}

ContactArgs ==
    {[email |-> e, first_name |-> f, last_name |-> l, user_id |-> u,
      custom_fields |-> c] :
        e \in {GoodEmail, BadEmail, None},
        f \in {SomeName, BlankStr},
        l \in {SomeName, EmptyStr},
        u \in {None, UserId},
        c \in {None, Dict([plan |-> SomeName]), SomeName}}

EmailLists ==
    {List(<<>>), List(<<GoodEmail>>), List(<<GoodEmail, BadEmail>>),
     List(<<EmptyStr>>), List(<<GoodEmail, GoodEmail>>)}

Identifiers == {None, EmptyStr, BlankStr, ContactId, UserId}

GoodContact == Dict([email |-> GoodEmail, firstName |-> SomeName])

BulkUpdateArgs ==
    {[contacts |-> cs, run_workflow |-> w] :
        cs \in {List(<<>>), List(<<GoodContact>>),
                List(<<GoodContact, Dict([email |-> BadEmail])>>),
                List(<<Dict([firstName |-> SomeName])>>),
                Tuple(<<GoodContact>>),
                List(Replicate(GoodContact, MaxContacts)),
                List(Replicate(GoodContact, MaxContacts + 1))},
        w \in {Bool(FALSE), Bool(TRUE)}}

\* what the transport answers
StatusCodes == {101, 200, 204, 301, 304, 400, 401, 404, 500, 503}

Bodies ==
    {<<"O", "K">>, <<"\"", "O", "K", "\"">>, <<"{", "}">>, <<"4", "2">>,
     <<>>}

\* the requests.RequestException instances the transport raises
TransportExceptions ==
    {[class |-> "ConnectionError",
      text |-> <<"c", "o", "n", "n", "e", "c", "t", "i", "o", "n", " ", "r",
                 "e", "f", "u", "s", "e", "d">>],
     [class |-> "Timeout",
      text |-> <<"t", "i", "m", "e", "d", " ", "o", "u", "t">>]}

ClientInputs ==
    {[api_key |-> Str(<<" ", "k", "1", " ">>),
      base_url |-> Str(DefaultBaseUrl)],
     [api_key |-> Str(<<"k", "2">>),
      base_url |-> Str(<<"h", "t", "t", "p", ":", "/", "/", "h", "/">>)]}

(***************************************************************************)
(* State                                                                   *)
(***************************************************************************)
NoCall == [op |-> "none"]

NoResponse == [kind |-> "none"]

Pending == [kind |-> "pending"]

NoProbe == [fn |-> "none"]

\* one client, successfully constructed; no call has started
Init ==
    /\ \E c \in ClientInputs :
         /\ ~Raised(AutosendClient_init(c.api_key, c.base_url))
         /\ client = AutosendClient_init(c.api_key, c.base_url).value
    /\ pc = [t \in Threads |-> "idle"]
    /\ call = [t \in Threads |-> NoCall]
    /\ sent = [t \in Threads |-> <<>>]
    /\ response = [t \in Threads |-> NoResponse]
    /\ outcome = [t \in Threads |-> Pending]
    /\ probe = NoProbe
    /\ probeOut = NoProbe

(***************************************************************************)
(* A public method: its checks, then one call of client.get/post/delete.   *)
(* The thread stops inside requests.request until the transport answers.   *)
(***************************************************************************)
Invoke(t, op, a, err, method, endpoint, kwargs) ==
    /\ call' = [call EXCEPT ![t] = [op |-> op, args |-> a]]
    /\ IF Raised(err)
       THEN /\ pc' = [pc EXCEPT ![t] = "returned"]
            /\ outcome' = [outcome EXCEPT ![t] = err]
            /\ sent' = sent
       ELSE /\ pc' = [pc EXCEPT ![t] = "in_transport"]
            /\ sent' = [sent EXCEPT ![t] =
                          Append(@, HttpRequest(client, method, endpoint,
                                                kwargs))]
            /\ outcome' = outcome
    /\ UNCHANGED <<client, response, probe, probeOut>>

\* client.post(endpoint, data): json=data
PostKwargs(data) == [json |-> data]

\* client.get(endpoint), client.delete(endpoint): no extra arguments
NoKwargs == <<>>

send_email(t, a) ==
    /\ pc[t] = "idle"
    /\ Invoke(t, "send_email", a, send_email_validate(a), "POST",
              <<"/", "m", "a", "i", "l", "s", "/", "s", "e", "n", "d">>,
              PostKwargs(send_email_payload(a)))

send_bulk(t, a) ==
    /\ pc[t] = "idle"
    /\ Invoke(t, "send_bulk", a, send_bulk_validate(a), "POST",
              <<"/", "m", "a", "i", "l", "s", "/", "b", "u", "l", "k">>,
              PostKwargs(send_bulk_payload(a)))

create_contact(t, a) ==
    /\ pc[t] = "idle"
    /\ Invoke(t, "create_contact", a, contact_validate(a), "POST",
              <<"/", "c", "o", "n", "t", "a", "c", "t", "s">>,
              PostKwargs(contact_payload(a)))

upsert_contact(t, a) ==
    /\ pc[t] = "idle"
    /\ Invoke(t, "upsert_contact", a, contact_validate(a), "POST",
              <<"/", "c", "o", "n", "t", "a", "c", "t", "s", "/", "e", "m", "a",
                "i", "l">>,
              PostKwargs(contact_payload(a)))

remove_contacts(t, emails) ==
    /\ pc[t] = "idle"
    /\ Invoke(t, "remove_contacts", [emails |-> emails],
              emails_validate(emails),
              "POST",
              <<"/", "c", "o", "n", "t", "a", "c", "t", "s", "/", "r", "e", "m",
                "o", "v", "e">>,
              PostKwargs(emails))

get_contact(t, contact_id) ==
    /\ pc[t] = "idle"
    /\ Invoke(t, "get_contact", [contact_id |-> contact_id],
              _validate_non_empty(contact_id, "contact_id"), "GET",
              <<"/", "c", "o", "n", "t", "a", "c", "t", "s", "/">>
                \o contact_id.v,
              NoKwargs)

search_by_emails(t, emails) ==
    /\ pc[t] = "idle"
    /\ Invoke(t, "search_by_emails", [emails |-> emails],
              emails_validate(emails), "POST",
              <<"/", "c", "o", "n", "t", "a", "c", "t", "s", "/", "s", "e", "a",
                "r", "c", "h", "/", "e", "m", "a", "i", "l", "s">>,
              PostKwargs(emails))

bulk_update(t, a) ==
    /\ pc[t] = "idle"
    /\ Invoke(t, "bulk_update", a, bulk_update_validate(a), "POST",
              <<"/", "c", "o", "n", "t", "a", "c", "t", "s", "/", "b", "u", "l",
                "k", "-", "u", "p", "d", "a", "t", "e">>,
              PostKwargs(bulk_update_payload(a)))

delete_by_user_id(t, user_id) ==
    /\ pc[t] = "idle"
    /\ Invoke(t, "delete_by_user_id", [user_id |-> user_id],
              _validate_non_empty(user_id, "user_id"), "DELETE",
              <<"/", "c", "o", "n", "t", "a", "c", "t", "s", "/", "e", "m", "a",
                "i", "l", "/", "u", "s", "e", "r", "I", "d", "/">> \o user_id.v,
              NoKwargs)

delete_by_id(t, contact_id) ==
    /\ pc[t] = "idle"
    /\ Invoke(t, "delete_by_id", [contact_id |-> contact_id],
              _validate_non_empty(contact_id, "contact_id"), "DELETE",
              <<"/", "c", "o", "n", "t", "a", "c", "t", "s", "/">>
                \o contact_id.v,
              NoKwargs)

get_unsubscribe_groups(t, contact_id) ==
    /\ pc[t] = "idle"
    /\ Invoke(t, "get_unsubscribe_groups", [contact_id |-> contact_id],
              _validate_non_empty(contact_id, "contact_id"), "GET",
              <<"/", "c", "o", "n", "t", "a", "c", "t", "s", "/">>
                \o contact_id.v
                \o <<"/", "u", "n", "s", "u", "b", "s", "c", "r", "i", "b", "e",
                     "-", "g", "r", "o", "u", "p", "s">>,
              NoKwargs)

(***************************************************************************)
(* The transport answers the request of thread t, and _request finishes.   *)
(***************************************************************************)
\* _request dropping the credential when the API answers 401
TransportResponds_forgets_key(t, status_code, text) ==
    /\ pc[t] = "in_transport"
    /\ response' = [response EXCEPT ![t] =
                      [kind |-> "response", status_code |-> status_code,
                       text |-> text]]
    /\ outcome' = [outcome EXCEPT ![t] =
                     _request_response([status_code |-> status_code,
                                        text |-> text])]
    /\ pc' = [pc EXCEPT ![t] = "returned"]
    /\ client' = IF status_code = 401
                 THEN [client EXCEPT !.api_key = <<>>] ELSE client
    /\ UNCHANGED <<call, sent, probe, probeOut>>

TransportResponds(t, status_code, text) ==
    /\ pc[t] = "in_transport"
    /\ response' = [response EXCEPT ![t] =
                      [kind |-> "response", status_code |-> status_code,
                       text |-> text]]
    /\ outcome' = [outcome EXCEPT ![t] =
                     _request_response([status_code |-> status_code,
                                        text |-> text])]
    /\ pc' = [pc EXCEPT ![t] = "returned"]
    /\ UNCHANGED <<client, call, sent, probe, probeOut>>

\* _request trying the request a second time after a RequestException
TransportRaises_retry(t, exc) ==
    /\ pc[t] = "in_transport"
    /\ sent' = [sent EXCEPT ![t] = Append(@, sent[t][1])]
    /\ response' = [response EXCEPT ![t] = [kind |-> "exception", exc |-> exc]]
    /\ outcome' = [outcome EXCEPT ![t] = _request_except(exc)]
    /\ pc' = [pc EXCEPT ![t] = "returned"]
    /\ UNCHANGED <<client, call, probe, probeOut>>

\* a RequestException of one call ending every call that is in flight, as
\* with one connection shared by all the calls
TransportRaises_fails_all(t, exc) ==
    /\ pc[t] = "in_transport"
    /\ response' = [u \in Threads |->
                      IF pc[u] = "in_transport"
                      THEN [kind |-> "exception", exc |-> exc]
                      ELSE response[u]]
    /\ outcome' = [u \in Threads |->
                     IF pc[u] = "in_transport" THEN _request_except(exc)
                     ELSE outcome[u]]
    /\ pc' = [u \in Threads |->
                IF pc[u] = "in_transport" THEN "returned" ELSE pc[u]]
    /\ UNCHANGED <<client, call, sent, probe, probeOut>>

TransportRaises(t, exc) ==
    /\ pc[t] = "in_transport"
    /\ response' = [response EXCEPT ![t] = [kind |-> "exception", exc |-> exc]]
    /\ outcome' = [outcome EXCEPT ![t] = _request_except(exc)]
    /\ pc' = [pc EXCEPT ![t] = "returned"]
    /\ UNCHANGED <<client, call, sent, probe, probeOut>>

\* the caller has the result or the error; the call's frame is gone
Return(t) ==
    /\ pc[t] = "returned"
    /\ pc' = [pc EXCEPT ![t] = "idle"]
    /\ call' = [call EXCEPT ![t] = NoCall]
    /\ sent' = [sent EXCEPT ![t] = <<>>]
    /\ response' = [response EXCEPT ![t] = NoResponse]
    /\ outcome' = [outcome EXCEPT ![t] = Pending]
    /\ UNCHANGED <<client, probe, probeOut>>

Next ==
    \/ \E a \in SendEmailArgs : send_email(MainThread, a)
    \/ \E a \in SendBulkArgs : send_bulk(MainThread, a)
    \/ \E a \in ContactArgs : create_contact(MainThread, a)
    \/ \E a \in ContactArgs : upsert_contact(MainThread, a)
    \/ \E emails \in EmailLists : remove_contacts(MainThread, emails)
    \/ \E id \in Identifiers : get_contact(MainThread, id)
    \/ \E emails \in EmailLists : search_by_emails(MainThread, emails)
    \/ \E a \in BulkUpdateArgs : bulk_update(MainThread, a)
    \/ \E id \in Identifiers : delete_by_user_id(MainThread, id)
    \/ \E id \in Identifiers : delete_by_id(MainThread, id)
    \/ \E id \in Identifiers : get_unsubscribe_groups(MainThread, id)
    \/ \E s \in StatusCodes, b \in Bodies :
         TransportResponds(MainThread, s, b)
    \/ \E exc \in TransportExceptions : TransportRaises(MainThread, exc)
    \/ Return(MainThread)

Spec == Init /\ [][Next]_vars

(***************************************************************************)
(* _validate_dynamic_data on its own: SpecTemplate                         *)
(***************************************************************************)
MaxFragments == 4

HtmlFragments ==
    {<<"{", "{">>, <<"}", "}">>, <<" ">>, <<"a">>, <<"b">>,
     <<"{", "{", "a", "}", "}">>,
     <<"{", "{", " ", "b", " ", "}", "}">>}

\* the strings made of at most k fragments
RECURSIVE FragmentStrings(_)
FragmentStrings(k) ==
    IF k = 0 THEN {<<>>}
    ELSE LET shorter == FragmentStrings(k - 1)
         IN  shorter \cup {s \o f : s \in shorter, f \in HtmlFragments}

TemplateHtmls == {Str(s) : s \in FragmentStrings(MaxFragments)} \cup {HiName}

TemplateDatas ==
    {NoData, NameData,
     Dict((<<"a">> :> SomeName)),
     Dict((<<"a">> :> SomeName) @@ (<<"b">> :> SomeName)),
     Dict((<<"a">> :> SomeName) @@ (<<"c">> :> SomeName))}

InitTemplate ==
    /\ client = AutosendClient_init(Str(<<"k", "2">>),
                                    Str(DefaultBaseUrl)).value
    /\ pc = [t \in Threads |-> "idle"]
    /\ call = [t \in Threads |-> NoCall]
    /\ sent = [t \in Threads |-> <<>>]
    /\ response = [t \in Threads |-> NoResponse]
    /\ outcome = [t \in Threads |-> Pending]
    /\ \E h \in TemplateHtmls, d \in TemplateDatas :
         probe = [fn |-> "_validate_dynamic_data", html |-> h,
                  dynamic_data |-> d]
    /\ probeOut = NoProbe

ApplyValidateDynamicData ==
    /\ probe.fn = "_validate_dynamic_data"
    /\ probeOut = NoProbe
    /\ probeOut' = [fn |-> probe.fn,
                    result |-> _validate_dynamic_data(probe.html,
                                                      probe.dynamic_data)]
    /\ UNCHANGED <<client, pc, call, sent, response, outcome, probe>>

NextTemplate == ApplyValidateDynamicData

SpecTemplate == InitTemplate /\ [][NextTemplate]_vars

(***************************************************************************)
(* _validate_attachments on its own: SpecAttachments                       *)
(***************************************************************************)
AttachmentsOver == 1

FileStems == {<<>>, <<"a">>, <<"a", ".", "t", "a", "r">>}

FileSuffixes ==
    {<<>>, <<".">>, <<".", "e", "x", "e">>, <<".", "E", "X", "E">>,
     <<".", "E", "x", "e">>, <<".", "t", "x", "t">>, <<".", "J", "s">>,
     <<".", "j", "s", "x">>, <<".", "e", "x", "e", ".", "t", "x", "t">>}

AttachmentFiles ==
    {Dict([filename |-> Str(stem \o suffix), content |-> Str(<<"x">>)]) :
        stem \in FileStems, suffix \in FileSuffixes}
      \cup {Dict([content |-> Str(<<"x">>)])}

\* n files, all equal to base but the one at index pos
ListWithOdd(n, base, odd, pos) ==
    List([i \in 1..n |-> IF i = pos THEN odd ELSE base])

AttachmentLists ==
    {None}
      \cup {ListWithOdd(n, base, odd, pos) :
              n \in 0..(MaxAttachments + AttachmentsOver),
              base \in {TextFile, ExeFile},
              odd \in AttachmentFiles,
              pos \in {1, MaxAttachments}}

InitAttachments ==
    /\ client = AutosendClient_init(Str(<<"k", "2">>),
                                    Str(DefaultBaseUrl)).value
    /\ pc = [t \in Threads |-> "idle"]
    /\ call = [t \in Threads |-> NoCall]
    /\ sent = [t \in Threads |-> <<>>]
    /\ response = [t \in Threads |-> NoResponse]
    /\ outcome = [t \in Threads |-> Pending]
    /\ \E at \in AttachmentLists :
         probe = [fn |-> "_validate_attachments", attachments |-> at]
    /\ probeOut = NoProbe

ApplyValidateAttachments ==
    /\ probe.fn = "_validate_attachments"
    /\ probeOut = NoProbe
    /\ probeOut' = [fn |-> probe.fn,
                    result |-> _validate_attachments(probe.attachments)]
    /\ UNCHANGED <<client, pc, call, sent, response, outcome, probe>>

NextAttachments == ApplyValidateAttachments

SpecAttachments == InitAttachments /\ [][NextAttachments]_vars

(***************************************************************************)
(* send_bulk over recipient lists of every interesting length:             *)
(* SpecRecipients                                                          *)
(***************************************************************************)
SmallLen == 3

RecipientsOver == 1

RecipientLengths ==
    (0..SmallLen) \cup ((MaxRecipients - 1)..(MaxRecipients + RecipientsOver))

RecipientEntries ==
    {GoodRecipient,
     Dict([email |-> Str(<<"b", "@", "y", ".", "o", "r", "g">>),
           name |-> EmptyStr]),
     BadEmailRecipient, EmptyEmailRecipient, NamelessRecipient,
     EmaillessRecipient}

RecipientsArgs ==
    {[recipients |-> ListWithOdd(n, base, odd, pos), from_email |-> GoodEmail,
      from_name |-> SomeName, subject |-> PlainHtml, html |-> HiName,
      dynamic_data |-> d, reply_to_email |-> None, unsubscribe_url |-> u,
      unsubscribe_group_id |-> None] :
        n \in RecipientLengths,
        base \in {GoodRecipient, BadEmailRecipient},
        odd \in RecipientEntries,
        pos \in {1, SmallLen, MaxRecipients},
        d \in {NoData, NameData},
        u \in {None, HttpsUrl, FtpUrl}}

NextRecipients ==
    \/ \E a \in RecipientsArgs : send_bulk(MainThread, a)
    \/ TransportResponds(MainThread, 200, <<"O", "K">>)
    \/ Return(MainThread)

SpecRecipients == Init /\ [][NextRecipients]_vars

(***************************************************************************)
(* send_email over every combination of given, empty and absent optional   *)
(* arguments and of valid and invalid addresses: SpecSendEmail             *)
(***************************************************************************)
SendEmailFieldArgs ==
    {[to_email |-> e, to_name |-> SomeName, from_email |-> f,
      from_name |-> SomeName, subject |-> PlainHtml, html |-> PlainHtml,
      dynamic_data |-> d, reply_to_email |-> r, attachments |-> at,
      unsubscribe_url |-> u, unsubscribe_group_id |-> g] :
        e \in {GoodEmail, BadEmail, EmptyStr},
        f \in {GoodEmail, BadEmail},
        d \in {NoData, NameData},
        r \in {None, EmptyStr, GoodEmail, BadEmail},
        at \in {None, List(<<>>), List(<<TextFile>>)},
        u \in {None, EmptyStr, HttpsUrl},
        g \in {None, EmptyStr, GroupId}}

NextSendEmail ==
    \/ \E a \in SendEmailFieldArgs : send_email(MainThread, a)
    \/ TransportResponds(MainThread, 200, <<"O", "K">>)
    \/ Return(MainThread)

SpecSendEmail == Init /\ [][NextSendEmail]_vars

(***************************************************************************)
(* bulk_update over lists, non-lists and None: SpecBulkUpdate              *)
(***************************************************************************)
ContactsOver == 1

ContactEntries ==
    {GoodContact, Dict([email |-> BadEmail]), Dict([email |-> EmptyStr]),
     Dict([email |-> None]), Dict([firstName |-> SomeName])}

ContactsArguments ==
    {None, PyInt(3), Str(<<>>), List(<<>>), Tuple(<<>>), Tuple(<<GoodContact>>),
     Dict([email |-> GoodEmail])}
    \cup {ListWithOdd(n, GoodContact, odd, pos) :
            n \in (1..SmallLen)
                  \cup ((MaxContacts - 1)..(MaxContacts + ContactsOver)),
            odd \in ContactEntries,
            pos \in {1, SmallLen, MaxContacts}}

ContactsArgs ==
    {[contacts |-> cs, run_workflow |-> w] :
        cs \in ContactsArguments, w \in {Bool(FALSE), Bool(TRUE)}}

NextBulkUpdate ==
    \/ \E a \in ContactsArgs : bulk_update(MainThread, a)
    \/ \E b \in Bodies : TransportResponds(MainThread, 200, b)
    \/ Return(MainThread)

SpecBulkUpdate == Init /\ [][NextBulkUpdate]_vars

(***************************************************************************)
(* The client from its construction on: SpecLifecycle.  AutosendClient(...)*)
(* either raises and leaves no client, or builds the client on which the   *)
(* eleven methods are then called.                                         *)
(***************************************************************************)
NoClient == [kind |-> "none"]

ConstructorInputs ==
    {[api_key |-> k, base_url |-> b] :
        k \in {None, EmptyStr, BlankStr, Str(<<" ", "\t", "\n">>),
               Str(<<" ", "k", "1", " ">>), Str(<<"k", "2">>)},
        b \in {Str(DefaultBaseUrl),
               Str(<<"h", "t", "t", "p", ":", "/", "/", "h", "/">>)}}

InitLifecycle ==
    /\ client = NoClient
    /\ pc = [t \in Threads |-> "idle"]
    /\ call = [t \in Threads |-> NoCall]
    /\ sent = [t \in Threads |-> <<>>]
    /\ response = [t \in Threads |-> NoResponse]
    /\ outcome = [t \in Threads |-> Pending]
    /\ probe = NoProbe
    /\ probeOut = NoProbe

\* AutosendClient(api_key, base_url): probe keeps the arguments and probeOut
\* what __init__ did with them
Construct(api_key, base_url) ==
    /\ client = NoClient
    /\ probe' = [fn |-> "__init__", api_key |-> api_key,
                 base_url |-> base_url]
    /\ probeOut' = [fn |-> "__init__",
                    result |-> AutosendClient_init(api_key, base_url)]
    /\ client' = IF Raised(AutosendClient_init(api_key, base_url))
                 THEN NoClient
                 ELSE AutosendClient_init(api_key, base_url).value
    /\ UNCHANGED <<pc, call, sent, response, outcome>>

\* one call that passes its checks and one that does not, for each method
LifecycleSendEmailArgs ==
    {a \in SendEmailArgs :
        /\ a.to_email = GoodEmail /\ a.html = PlainHtml
        /\ a.dynamic_data = NoData /\ a.reply_to_email = None
        /\ a.attachments = None /\ a.unsubscribe_group_id = None
        /\ a.unsubscribe_url \in {None, FtpUrl}}

LifecycleSendBulkArgs ==
    {a \in SendBulkArgs :
        /\ a.recipients \in {List(<<>>), List(<<GoodRecipient>>)}
        /\ a.html = PlainHtml /\ a.dynamic_data = NoData
        /\ a.unsubscribe_url = None}

LifecycleContactArgs ==
    {a \in ContactArgs :
        /\ a.first_name = SomeName /\ a.last_name = SomeName
        /\ a.user_id = None /\ a.custom_fields = None}

LifecycleEmailLists == {List(<<>>), List(<<GoodEmail>>)}

LifecycleIdentifiers == {EmptyStr, ContactId}

LifecycleBulkUpdateArgs ==
    {a \in BulkUpdateArgs :
        /\ a.contacts \in {List(<<>>), List(<<GoodContact>>)}
        /\ a.run_workflow = Bool(FALSE)}

NextLifecycle ==
    \/ \E c \in ConstructorInputs : Construct(c.api_key, c.base_url)
    \/ /\ client # NoClient
       /\ \/ \E a \in LifecycleSendEmailArgs : send_email(MainThread, a)
          \/ \E a \in LifecycleSendBulkArgs : send_bulk(MainThread, a)
          \/ \E a \in LifecycleContactArgs : create_contact(MainThread, a)
          \/ \E a \in LifecycleContactArgs : upsert_contact(MainThread, a)
          \/ \E emails \in LifecycleEmailLists :
               remove_contacts(MainThread, emails)
          \/ \E id \in LifecycleIdentifiers : get_contact(MainThread, id)
          \/ \E emails \in LifecycleEmailLists :
               search_by_emails(MainThread, emails)
          \/ \E a \in LifecycleBulkUpdateArgs : bulk_update(MainThread, a)
          \/ \E id \in LifecycleIdentifiers :
               delete_by_user_id(MainThread, id)
          \/ \E id \in LifecycleIdentifiers : delete_by_id(MainThread, id)
          \/ \E id \in LifecycleIdentifiers :
               get_unsubscribe_groups(MainThread, id)
    \/ \E s \in StatusCodes, b \in Bodies :
         TransportResponds(MainThread, s, b)
    \/ \E exc \in TransportExceptions : TransportRaises(MainThread, exc)
    \/ Return(MainThread)

SpecLifecycle == InitLifecycle /\ [][NextLifecycle]_vars

(***************************************************************************)
(* Calls of several threads on one client, in every interleaving:          *)
(* SpecConcurrent                                                          *)
(***************************************************************************)
\* a contact id that spells the rest of another endpoint's path
UserIdPathId ==
    Str(<<"e", "m", "a", "i", "l", "/", "u", "s", "e", "r", "I", "d", "/">>
        \o UserId.v)

ConcurrentSendEmailArgs ==
    {a \in SendEmailArgs :
        /\ a.html = PlainHtml
        /\ a.dynamic_data = NoData /\ a.reply_to_email = None
        /\ a.attachments = None /\ a.unsubscribe_group_id = None
        /\ a.unsubscribe_url \in {None, FtpUrl}}

ConcurrentSendBulkArgs ==
    {a \in SendBulkArgs :
        /\ a.recipients = List(<<GoodRecipient>>)
        /\ a.html = PlainHtml /\ a.dynamic_data = NoData
        /\ a.unsubscribe_url = None}

ConcurrentContactArgs ==
    {a \in ContactArgs :
        /\ a.email = GoodEmail
        /\ a.first_name = SomeName /\ a.last_name = SomeName
        /\ a.user_id = None /\ a.custom_fields = None}

ConcurrentEmailLists == {List(<<GoodEmail>>)}

ConcurrentBulkUpdateArgs ==
    {a \in BulkUpdateArgs :
        /\ a.contacts = List(<<GoodContact>>)
        /\ a.run_workflow = Bool(FALSE)}

ConcurrentStatusCodes == {200, 401}

ConcurrentExceptions == {exc \in TransportExceptions : exc.class = "Timeout"}

NextConcurrent ==
    \E t \in Threads :
        \/ \E a \in ConcurrentSendEmailArgs : send_email(t, a)
        \/ \E a \in ConcurrentSendBulkArgs : send_bulk(t, a)
        \/ \E a \in ConcurrentContactArgs : create_contact(t, a)
        \/ \E a \in ConcurrentContactArgs : upsert_contact(t, a)
        \/ \E emails \in ConcurrentEmailLists : remove_contacts(t, emails)
        \/ \E id \in {EmptyStr, ContactId, UserId} : get_contact(t, id)
        \/ \E emails \in ConcurrentEmailLists : search_by_emails(t, emails)
        \/ \E a \in ConcurrentBulkUpdateArgs : bulk_update(t, a)
        \/ \E id \in {UserId} : delete_by_user_id(t, id)
        \/ \E id \in {ContactId, UserIdPathId} : delete_by_id(t, id)
        \/ \E id \in {ContactId} : get_unsubscribe_groups(t, id)
        \/ \E s \in ConcurrentStatusCodes :
             TransportResponds(t, s, <<"O", "K">>)
        \/ \E exc \in ConcurrentExceptions : TransportRaises(t, exc)
        \/ Return(t)

SpecConcurrent == Init /\ [][NextConcurrent]_vars

(***************************************************************************)
(* Properties                                                              *)
(***************************************************************************)
RaisedClass(t, class) ==
    /\ pc[t] = "returned"
    /\ outcome[t].kind = "raise"
    /\ outcome[t].class = class

GotResponse(t) == pc[t] = "returned" /\ response[t].kind = "response"

\* C1: a call that ends in a ValidationError has sent no request during the
\* call, and bulk_update with MaxContacts + 1 = 101 contacts ends in a
\* ValidationError with no request sent.
C1_ValidationErrorSendsNothing ==
    \A t \in Threads :
        /\ RaisedClass(t, "ValidationError") => sent[t] = <<>>
        /\ ( /\ pc[t] # "idle"
             /\ call[t].op = "bulk_update"
             /\ isinstance(call[t].args.contacts, "list")
             /\ len(call[t].args.contacts) = MaxContacts + 1 )
           => RaisedClass(t, "ValidationError") /\ sent[t] = <<>>

C1_Witness ==
    \E t \in Threads :
        /\ call[t].op = "bulk_update"
        /\ len(call[t].args.contacts) = MaxContacts + 1
        /\ RaisedClass(t, "ValidationError")
        /\ sent[t] = <<>>

\* C2: a call whose checks pass issues exactly one request, whatever the
\* transport answers: no call ever has a second request, a call that is not
\* stopped by its own checks has exactly one, and a network failure, a 401
\* or a 4xx/5xx status ends that same call with an error.
C2_ExactlyOneRequest ==
    \A t \in Threads :
        /\ Len(sent[t]) <= 1
        /\ pc[t] = "idle" => sent[t] = <<>>
        /\ pc[t] = "in_transport" => Len(sent[t]) = 1
        /\ pc[t] = "returned" =>
             IF response[t].kind = "none"
             THEN /\ sent[t] = <<>>
                  /\ outcome[t].kind = "raise"
                  /\ outcome[t].class \in {"ValidationError", "TypeError"}
             ELSE /\ Len(sent[t]) = 1
                  /\ response[t].kind = "exception"
                       => outcome[t].kind = "raise"
                  /\ ( /\ response[t].kind = "response"
                       /\ response[t].status_code \in 400..599 )
                       => outcome[t].kind = "raise"

C2_Witness ==
    \E t \in Threads :
        /\ pc[t] = "returned"
        /\ response[t].kind = "exception"
        /\ Len(sent[t]) = 1
        /\ outcome[t].kind = "raise"

\* C3: when the transport answers 401, with any body, the call raises
\* AuthenticationError, not the AutosendError raised for the other statuses.
C3_Status401IsAuthenticationError ==
    \A t \in Threads :
        (GotResponse(t) /\ response[t].status_code = 401)
          => /\ outcome[t].kind = "raise"
             /\ outcome[t].class = "AuthenticationError"
             /\ outcome[t].class # "AutosendError"

C3_Witness ==
    \E t \in Threads :
        /\ GotResponse(t)
        /\ response[t].status_code = 401
        /\ response[t].text = <<"{", "}">>
        /\ RaisedClass(t, "AuthenticationError")

\* the message of the AutosendError raised for a status: it carries the
\* status code and the raw body text
ApiFailureMessage(status_code, text) ==
    <<"A", "P", "I", " ", "r", "e", "t", "u", "r", "n", "e", "d", " ">>
      \o IntToStr(status_code) \o <<":", " ">> \o text

\* C4: for every status outside 200..299 other than 401, 1xx and 3xx
\* included, the call raises AutosendError carrying the status code and the
\* raw body text.
C4_NonSuccessIsApiFailure ==
    \A t \in Threads :
        ( /\ GotResponse(t)
          /\ response[t].status_code \notin 200..299
          /\ response[t].status_code # 401 )
          => /\ RaisedClass(t, "AutosendError")
             /\ outcome[t].message =
                  ApiFailureMessage(response[t].status_code, response[t].text)

\* C5: for every 2xx response the call returns and raises nothing: the
\* parsed structure when the body is JSON, the raw text unchanged otherwise
\* (200 with body OK returns the string OK).
C5_SuccessReturnsJsonOrText ==
    \A t \in Threads :
        (GotResponse(t) /\ response[t].status_code \in 200..299)
          => /\ outcome[t].kind = "return"
             /\ JsonDecodes(response[t].text)
                  => outcome[t].value = response_json(response[t].text)
             /\ ~JsonDecodes(response[t].text)
                  => outcome[t].value = Str(response[t].text)
             /\ response[t].text = <<"O", "K">>
                  => outcome[t].value = Str(<<"O", "K">>)
             /\ response[t].text = <<"4", "2">>
                  => outcome[t].value = PyInt(42)
             /\ response[t].text = <<"{", "}">>
                  => outcome[t].value = Dict(<<>>)
             /\ response[t].text = <<>>
                  => outcome[t].value = Str(<<>>)

C5_Witness ==
    \E t \in Threads :
        /\ GotResponse(t)
        /\ response[t].status_code = 200
        /\ response[t].text = <<"O", "K">>
        /\ outcome[t] = Returns(Str(<<"O", "K">>))

\* C6: a network failure of the one attempt is raised as RequestError, not
\* as AuthenticationError or AutosendError and not as a result, and the
\* transport's exception is kept as the cause of the error.
C6_NetworkFailureIsRequestError ==
    \A t \in Threads :
        (pc[t] = "returned" /\ response[t].kind = "exception")
          => /\ outcome[t].kind = "raise"
             /\ outcome[t].class = "RequestError"
             /\ outcome[t].class \notin {"AuthenticationError", "AutosendError"}
             /\ outcome[t].cause = response[t].exc

C6_Witness ==
    \E t \in Threads :
        /\ pc[t] = "returned"
        /\ response[t].kind = "exception"
        /\ response[t].exc.class = "Timeout"
        /\ RaisedClass(t, "RequestError")
        /\ outcome[t].cause.class = "Timeout"

\* the names cited by the value of a template ValidationError
CitedNames(error) == {error.value.v[i].v : i \in 1..Len(error.value.v)}

\* C7: template validation fails exactly when some placeholder of html is
\* not a key of dynamicData; the error then cites exactly the placeholders
\* that are not keys (name, for 'Hi {{name}}' and no data); keys that no
\* placeholder uses never make it fail.
C7_TemplateFailsIffMissing ==
    probeOut.fn = "_validate_dynamic_data" =>
        LET placeholders == _extract_placeholders(probe.html)
            providedKeys == DOMAIN probe.dynamic_data.v
            missing == placeholders \ providedKeys
            result == probeOut.result
        IN  /\ Raised(result) <=> missing # {}
            /\ Raised(result) =>
                 /\ result.class = "ValidationError"
                 /\ result.field = "dynamicData"
                 /\ CitedNames(result) = missing
            /\ placeholders \subseteq providedKeys => result = NoError
            /\ (probe.html = HiName /\ probe.dynamic_data = NoData)
                 => Raised(result) /\ CitedNames(result) = {NameKey}

C7_Witness ==
    /\ probeOut.fn = "_validate_dynamic_data"
    /\ probe.html = Str(<<"{", "{", "a", "}", "}", "{", "{", "b", "}", "}">>)
    /\ DOMAIN probe.dynamic_data.v = {<<"a">>, <<"c">>}
    /\ Raised(probeOut.result)
    /\ CitedNames(probeOut.result) = {<<"b">>}

\* the substring after the last "." of a filename, in lower case; empty
\* when the filename has no "."
LoweredSuffix(filename) ==
    LET dots == {i \in 1..Len(filename) : filename[i] = "."}
    IN  IF dots = {} THEN <<>>
        ELSE lower(SubSeq(filename,
                          (CHOOSE i \in dots : \A j \in dots : j <= i) + 1,
                          Len(filename)))

BlockedNames == {Tail(ext) : ext \in blocked_extensions}

HasBlockedExtension(file) ==
    LoweredSuffix(filename_of(file).v) \in BlockedNames

\* C8: attachment validation accepts a list exactly when it has at most
\* MaxAttachments = 20 items and no filename has a blocked extension in any
\* letter case; a list of 21 fails; a failure for an extension names the
\* first file of the list that has a blocked extension.
C8_AttachmentsAcceptedIff ==
    probeOut.fn = "_validate_attachments" =>
        LET attachments == probe.attachments
            result == probeOut.result
        IN  /\ ~Raised(result) <=>
                 \/ isinstance(attachments, "NoneType")
                 \/ /\ len(attachments) <= MaxAttachments
                    /\ \A i \in 1..len(attachments) :
                         ~HasBlockedExtension(attachments.v[i])
            /\ ~Raised(result) => result = NoError
            /\ len(attachments) = MaxAttachments + 1 => Raised(result)
            /\ Raised(result) =>
                 /\ result.class = "ValidationError"
                 /\ result.field = "attachments"
            /\ (Raised(result) /\ len(attachments) <= MaxAttachments) =>
                 \E i \in 1..len(attachments) :
                     /\ HasBlockedExtension(attachments.v[i])
                     /\ \A j \in 1..(i - 1) :
                          ~HasBlockedExtension(attachments.v[j])
                     /\ result.value = filename_of(attachments.v[i])

C8_Witness ==
    /\ probeOut.fn = "_validate_attachments"
    /\ len(probe.attachments) = MaxAttachments
    /\ Raised(probeOut.result)
    /\ probeOut.result.value = Str(<<"a", ".", "t", "a", "r", ".", "E", "x",
                                     "e">>)

\* a recipient entry with both keys and an email that has an "@"
WellFormedRecipient(recipient) ==
    /\ "email" \in DOMAIN recipient.v
    /\ "name" \in DOMAIN recipient.v
    /\ recipient.v["email"].py = "str"
    /\ recipient.v["email"].v # <<>>
    /\ Contains("@", recipient.v["email"].v)

ValidTemplateAndUrl(a) ==
    /\ _extract_placeholders(a.html) \subseteq DOMAIN a.dynamic_data.v
    /\ \/ a.unsubscribe_url = None
       \/ startswith(a.unsubscribe_url.v, <<"h", "t", "t", "p">>)

\* C9: send_bulk with no recipient fails with a ValidationError on field
\* recipients; with more than MaxRecipients = 100 it fails; with 1 to 100
\* recipients that all have an email key, a name key and a valid email it
\* passes its checks and sends its request, given valid template data and
\* unsubscribe URL.
C9_RecipientCount ==
    \A t \in Threads :
        (pc[t] # "idle" /\ call[t].op = "send_bulk") =>
            LET a == call[t].args
                n == len(a.recipients)
            IN  /\ n = 0 => /\ RaisedClass(t, "ValidationError")
                            /\ outcome[t].field = "recipients"
                /\ n > MaxRecipients => RaisedClass(t, "ValidationError")
                /\ ( /\ n \in 1..MaxRecipients
                     /\ \A i \in 1..n : WellFormedRecipient(a.recipients.v[i])
                     /\ ValidTemplateAndUrl(a) )
                   => /\ Len(sent[t]) = 1
                      /\ ~RaisedClass(t, "ValidationError")

C9_Witness ==
    \E t \in Threads :
        /\ call[t].op = "send_bulk"
        /\ len(call[t].args.recipients) = MaxRecipients
        /\ \A i \in 1..MaxRecipients :
             WellFormedRecipient(call[t].args.recipients.v[i])
        /\ Len(sent[t]) = 1
        /\ pc[t] = "returned"
        /\ outcome[t].kind = "return"

\* C10: in send_bulk every recipient's email must pass the email check: a
\* recipient whose email is empty or has no "@" makes the call fail with a
\* ValidationError and no request, even when every entry has both keys.
C10_BulkRecipientEmailsChecked ==
    \A t \in Threads :
        ( /\ pc[t] # "idle"
          /\ call[t].op = "send_bulk"
          /\ \E i \in 1..len(call[t].args.recipients) :
               LET recipient == call[t].args.recipients.v[i]
               IN  /\ "email" \in DOMAIN recipient.v
                   /\ ~Contains("@", recipient.v["email"].v) )
          => RaisedClass(t, "ValidationError") /\ sent[t] = <<>>

\* the Address invariant: the email is a non-empty string with an "@"
ValidAddressEmail(email) ==
    /\ email.py = "str"
    /\ email.v # <<>>
    /\ Contains("@", email.v)

\* the body of the request the call of thread t has sent
SentBody(t) == sent[t][1].kwargs.json

\* C11: send_email with a to_email or from_email, or a supplied
\* reply_to_email, that is empty or has no "@" fails with a ValidationError
\* and sends nothing, so every address in a body sent by send_email has a
\* non-empty email with an "@".
C11_SendEmailAddressesValid ==
    \A t \in Threads :
        (pc[t] # "idle" /\ call[t].op = "send_email") =>
            LET a == call[t].args
            IN  /\ ( \/ ~ValidAddressEmail(a.to_email)
                     \/ ~ValidAddressEmail(a.from_email)
                     \/ /\ a.reply_to_email # None
                        /\ ~ValidAddressEmail(a.reply_to_email) )
                   => RaisedClass(t, "ValidationError") /\ sent[t] = <<>>
                /\ sent[t] # <<>> =>
                     /\ ValidAddressEmail(SentBody(t).v["to"].v["email"])
                     /\ ValidAddressEmail(SentBody(t).v["from"].v["email"])
                     /\ "replyTo" \in DOMAIN SentBody(t).v =>
                          ValidAddressEmail(
                              SentBody(t).v["replyTo"].v["email"])

\* an optional argument that was given and is not empty
Supplied(x) == x # None /\ x.v # <<>>

\* C12: the body send_email sends always has the keys to, from, subject,
\* html and dynamicData; replyTo, attachments and unsubscribe are there
\* exactly when reply_to_email, attachments, and one of unsubscribe_url and
\* unsubscribe_group_id are given and not empty; unsubscribe has url and
\* groupId exactly when each is given and not empty; no optional key holds
\* None or an empty value.
C12_SendEmailBodyKeys ==
    \A t \in Threads :
        (call[t].op = "send_email" /\ sent[t] # <<>>) =>
            LET a == call[t].args
                body == SentBody(t).v
                required == {"to", "from", "subject", "html", "dynamicData"}
                optional ==
                    (IF Supplied(a.reply_to_email) THEN {"replyTo"} ELSE {})
                    \cup
                    (IF Supplied(a.attachments) THEN {"attachments"} ELSE {})
                    \cup
                    (IF \/ Supplied(a.unsubscribe_url)
                        \/ Supplied(a.unsubscribe_group_id)
                     THEN {"unsubscribe"} ELSE {})
                inner ==
                    (IF Supplied(a.unsubscribe_url) THEN {"url"} ELSE {})
                    \cup
                    (IF Supplied(a.unsubscribe_group_id)
                     THEN {"groupId"} ELSE {})
            IN  /\ DOMAIN body = required \cup optional
                /\ "replyTo" \in DOMAIN body =>
                     body["replyTo"] = Dict([email |-> a.reply_to_email])
                /\ "attachments" \in DOMAIN body =>
                     body["attachments"] = a.attachments
                /\ "unsubscribe" \in DOMAIN body =>
                     /\ DOMAIN body["unsubscribe"].v = inner
                     /\ inner # {}
                     /\ \A k \in inner : Supplied(body["unsubscribe"].v[k])
                /\ \A k \in optional :
                     body[k] # None /\ len(body[k]) > 0

\* a body with optional keys left out and optional keys present
C12_Witness ==
    \E t \in Threads :
        /\ call[t].op = "send_email"
        /\ sent[t] # <<>>
        /\ call[t].args.reply_to_email = EmptyStr
        /\ call[t].args.attachments = List(<<>>)
        /\ call[t].args.unsubscribe_url = EmptyStr
        /\ call[t].args.unsubscribe_group_id = GroupId
        /\ DOMAIN SentBody(t).v =
             {"to", "from", "subject", "html", "dynamicData", "unsubscribe"}
        /\ DOMAIN SentBody(t).v["unsubscribe"].v = {"groupId"}

\* a contact entry with an email key whose value passes the email check
WellFormedContact(contact) ==
    /\ contact.py = "dict"
    /\ "email" \in DOMAIN contact.v
    /\ ValidAddressEmail(contact.v["email"])

\* a batch bulk_update is to accept: a list of 1 to MaxContacts entries
WellFormedBatch(contacts) ==
    /\ isinstance(contacts, "list")
    /\ len(contacts) \in 1..MaxContacts
    /\ \A i \in 1..len(contacts) : WellFormedContact(contacts.v[i])

\* C13: bulk_update fails with a ValidationError and sends nothing when
\* contacts is empty, is None or another non-list, has more than
\* MaxContacts = 100 entries, or has an entry without an email key or with
\* an email that fails the email check; otherwise it sends the body
\* {contacts, runWorkflow}.
C13_BulkUpdateBatchChecked ==
    \A t \in Threads :
        (pc[t] # "idle" /\ call[t].op = "bulk_update") =>
            LET a == call[t].args
            IN  IF WellFormedBatch(a.contacts)
                THEN /\ Len(sent[t]) = 1
                     /\ SentBody(t) = Dict([contacts    |-> a.contacts,
                                            runWorkflow |-> a.run_workflow])
                ELSE /\ RaisedClass(t, "ValidationError")
                     /\ sent[t] = <<>>

\* C14: remove_contacts and search_by_emails with an empty list fail with a
\* ValidationError on field emails; with a list holding an email that is
\* empty or has no "@" they fail with a ValidationError; neither sends a
\* request then; otherwise the body of the request is the list of emails
\* itself, as given.
C14_EmailListChecked ==
    \A t \in Threads :
        ( /\ pc[t] # "idle"
          /\ call[t].op \in {"remove_contacts", "search_by_emails"}
          /\ isinstance(call[t].args.emails, "list") ) =>
            LET emails == call[t].args.emails
            IN  IF len(emails) = 0
                THEN /\ RaisedClass(t, "ValidationError")
                     /\ outcome[t].field = "emails"
                     /\ sent[t] = <<>>
                ELSE IF \E i \in 1..len(emails) :
                            ~ValidAddressEmail(emails.v[i])
                THEN /\ RaisedClass(t, "ValidationError")
                     /\ sent[t] = <<>>
                ELSE /\ Len(sent[t]) = 1
                     /\ sent[t][1].kwargs = [json |-> emails]

C14_Witness ==
    \E t \in Threads :
        /\ call[t].op = "remove_contacts"
        /\ call[t].args.emails = List(<<>>)
        /\ RaisedClass(t, "ValidationError")
        /\ outcome[t].field = "emails"
        /\ sent[t] = <<>>

\* a credential given to the constructor that is None, empty or only
\* whitespace
BlankCredential(api_key) ==
    \/ api_key = None
    \/ \A i \in 1..Len(api_key.v) : api_key.v[i] \in SpaceChars

\* a construction has been tried with a blank credential
ConstructedBlank ==
    /\ probeOut # NoProbe
    /\ probe.fn = "__init__"
    /\ BlankCredential(probe.api_key)

\* C15, as stated: constructing a client with an empty or whitespace-only
\* credential fails with ConfigurationError, a kind of error other than the
\* one that reports an HTTP 401, and produces no client.
C15_BlankCredentialIsConfigurationError ==
    ConstructedBlank =>
        /\ probeOut.result.kind = "raise"
        /\ probeOut.result.class = "ConfigurationError"
        /\ probeOut.result.class #
             _request_response([status_code |-> 401, text |-> <<>>]).class
        /\ client = NoClient

\* C15, amended: constructing a client with an empty or whitespace-only
\* credential fails with AuthenticationError, the same class of error that
\* reports an HTTP 401, and produces no client.
C15_BlankCredentialIsAuthenticationError ==
    ConstructedBlank =>
        /\ probeOut.result.kind = "raise"
        /\ probeOut.result.class = "AuthenticationError"
        /\ probeOut.result.class =
             _request_response([status_code |-> 401, text |-> <<>>]).class
        /\ client = NoClient

C15_Witness ==
    /\ ConstructedBlank
    /\ probe.api_key = Str(<<" ", "\t", "\n">>)
    /\ probeOut.result.kind = "raise"
    /\ probeOut.result.class = "AuthenticationError"
    /\ client = NoClient

\* the method of each operation in the endpoint table
TableMethod(op) ==
    CASE op \in {"get_contact", "get_unsubscribe_groups"} -> "GET"
    [] op \in {"delete_by_user_id", "delete_by_id"} -> "DELETE"
    [] OTHER -> "POST"

\* the path of each operation in the endpoint table, {id} and {userId}
\* replaced by the call's argument
TablePath(c) ==
    CASE c.op = "send_email" ->
           <<"/", "m", "a", "i", "l", "s", "/", "s", "e", "n", "d">>
    [] c.op = "send_bulk" ->
           <<"/", "m", "a", "i", "l", "s", "/", "b", "u", "l", "k">>
    [] c.op = "create_contact" ->
           <<"/", "c", "o", "n", "t", "a", "c", "t", "s">>
    [] c.op = "upsert_contact" ->
           <<"/", "c", "o", "n", "t", "a", "c", "t", "s", "/", "e", "m", "a",
             "i", "l">>
    [] c.op = "remove_contacts" ->
           <<"/", "c", "o", "n", "t", "a", "c", "t", "s", "/", "r", "e", "m",
             "o", "v", "e">>
    [] c.op = "search_by_emails" ->
           <<"/", "c", "o", "n", "t", "a", "c", "t", "s", "/", "s", "e", "a",
             "r", "c", "h", "/", "e", "m", "a", "i", "l", "s">>
    [] c.op = "bulk_update" ->
           <<"/", "c", "o", "n", "t", "a", "c", "t", "s", "/", "b", "u", "l",
             "k", "-", "u", "p", "d", "a", "t", "e">>
    [] c.op = "get_contact" ->
           <<"/", "c", "o", "n", "t", "a", "c", "t", "s", "/">>
           \o c.args.contact_id.v
    [] c.op = "delete_by_user_id" ->
           <<"/", "c", "o", "n", "t", "a", "c", "t", "s", "/", "e", "m", "a",
             "i", "l", "/", "u", "s", "e", "r", "I", "d", "/">>
           \o c.args.user_id.v
    [] c.op = "delete_by_id" ->
           <<"/", "c", "o", "n", "t", "a", "c", "t", "s", "/">>
           \o c.args.contact_id.v
    [] c.op = "get_unsubscribe_groups" ->
           <<"/", "c", "o", "n", "t", "a", "c", "t", "s", "/">>
           \o c.args.contact_id.v \o
           <<"/", "u", "n", "s", "u", "b", "s", "c", "r", "i", "b", "e", "-",
             "g", "r", "o", "u", "p", "s">>

\* every request sent follows the endpoint table, on the client's base URL
RequestsFollowTable ==
    \A t \in Threads :
        sent[t] # <<>> =>
            /\ sent[t][1].method = TableMethod(call[t].op)
            /\ sent[t][1].url = client.base_url \o TablePath(call[t])
            /\ \/ client.base_url = <<>>
               \/ client.base_url[Len(client.base_url)] # "/"

\* C16: every operation that passes its checks sends its request with the
\* method and path of the endpoint table, appended to the base URL without
\* its trailing slash; a delete_by_id request and a delete_by_user_id
\* request never have the same path.
C16_EndpointTable ==
    /\ RequestsFollowTable
    /\ \A t, u \in Threads :
         ( /\ call[t].op = "delete_by_id" /\ sent[t] # <<>>
           /\ call[u].op = "delete_by_user_id" /\ sent[u] # <<>> )
         => sent[t][1].url # sent[u][1].url

\* the identifier argument of get_contact, delete_by_id, delete_by_user_id
IdentifierOf(c) ==
    IF c.op = "delete_by_user_id" THEN c.args.user_id ELSE c.args.contact_id

\* C17: get_contact, delete_by_id and delete_by_user_id raise ValueError
\* when the identifier is empty or None, and send no request then.
C17_EmptyIdentifierIsValueError ==
    \A t \in Threads :
        ( /\ pc[t] # "idle"
          /\ call[t].op \in {"get_contact", "delete_by_id",
                              "delete_by_user_id"}
          /\ IdentifierOf(call[t]) \in {None, EmptyStr} )
        => /\ pc[t] = "returned"
           /\ outcome[t].kind = "raise"
           /\ outcome[t].class \in DOMAIN Bases =>
                "ValueError" \in Bases[outcome[t].class]
           /\ outcome[t].class \notin DOMAIN Bases =>
                outcome[t].class = "ValueError"
           /\ sent[t] = <<>>

\* C18: once the client is constructed, then after any calls and whatever
\* their outcomes, its credential and base URL are the ones __init__ set;
\* the credential is not empty and not only whitespace; every request sent
\* has the header Authorization: Bearer followed by that credential.
C18_CredentialImmutable ==
    client # NoClient =>
        /\ probeOut.result.kind = "return"
        /\ client.api_key = probeOut.result.value.api_key
        /\ client.base_url = probeOut.result.value.base_url
        /\ client.api_key # <<>>
        /\ \E i \in 1..Len(client.api_key) :
             client.api_key[i] \notin SpaceChars
        /\ \A t \in Threads : \A i \in 1..Len(sent[t]) :
             sent[t][i].headers.Authorization =
                 <<"B", "e", "a", "r", "e", "r", " ">>
                 \o probeOut.result.value.api_key

\* a call on a constructed client has failed with the error of a 401; its
\* request carried the credential of construction, which the client keeps
C18_Witness ==
    \E t \in Threads :
        /\ client # NoClient
        /\ probe.api_key = Str(<<" ", "k", "1", " ">>)
        /\ RaisedClass(t, "AuthenticationError")
        /\ sent[t][1].headers.Authorization =
             <<"B", "e", "a", "r", "e", "r", " ", "k", "1">>
        /\ client.api_key = <<"k", "1">>

\* the request of thread t is built from the arguments of its own call and
\* from the client's credential and base URL
OwnRequest(t) ==
    LET a == call[t].args
        request == sent[t][1]
        body == request.kwargs.json
    IN  /\ request.method = TableMethod(call[t].op)
        /\ request.url = client.base_url \o TablePath(call[t])
        /\ request.headers.Authorization =
             <<"B", "e", "a", "r", "e", "r", " ">> \o client.api_key
        /\ CASE call[t].op = "send_email" ->
                 /\ body.v["to"].v["email"] = a.to_email
                 /\ body.v["from"].v["email"] = a.from_email
                 /\ body.v["html"] = a.html
                 /\ body.v["dynamicData"] = a.dynamic_data
             [] call[t].op = "send_bulk" ->
                 /\ body.v["recipients"] = a.recipients
                 /\ body.v["html"] = a.html
             [] call[t].op \in {"create_contact", "upsert_contact"} ->
                 body.v["email"] = a.email
             [] call[t].op \in {"remove_contacts", "search_by_emails"} ->
                 body = a.emails
             [] call[t].op = "bulk_update" ->
                 /\ body.v["contacts"] = a.contacts
                 /\ body.v["runWorkflow"] = a.run_workflow
             [] OTHER -> request.kwargs = <<>>

\* the result of thread t comes from its own arguments and its own response
OwnOutcome(t) ==
    CASE pc[t] = "idle" ->
             /\ call[t] = NoCall /\ sent[t] = <<>>
             /\ response[t] = NoResponse /\ outcome[t] = Pending
      [] pc[t] = "in_transport" ->
             /\ Len(sent[t]) = 1
             /\ response[t] = NoResponse /\ outcome[t] = Pending
      [] pc[t] = "returned" /\ sent[t] = <<>> ->
             /\ response[t] = NoResponse
             /\ outcome[t].kind = "raise"
             /\ outcome[t].class = "ValidationError"
      [] pc[t] = "returned" /\ sent[t] # <<>> ->
             /\ Len(sent[t]) = 1
             /\ response[t].kind = "exception" =>
                  /\ outcome[t].kind = "raise"
                  /\ outcome[t].class = "RequestError"
                  /\ outcome[t].cause = response[t].exc
             /\ response[t].kind = "response" =>
                  IF response[t].status_code = 401
                  THEN /\ outcome[t].kind = "raise"
                       /\ outcome[t].class = "AuthenticationError"
                  ELSE outcome[t].kind = "return"
             /\ response[t].kind \in {"exception", "response"}

\* the variables of the call of thread t
CallState(t) == <<pc[t], call[t], sent[t], response[t], outcome[t]>>

\* a step starts, answers or ends the call of one thread and leaves the
\* calls of the other threads, and the client, as they are
OneCallSteps ==
    /\ client' = client
    /\ \A t, u \in Threads :
         (t # u /\ CallState(t)' # CallState(t)) =>
             CallState(u)' = CallState(u)

\* C19: with calls of several threads interleaved in any way on one client,
\* each call sends at most one request, built from its own arguments and
\* the client's credential and base URL; its result or error comes from
\* its own arguments and its own response; two calls with the same
\* arguments and the same response end the same way; no step of one call
\* changes anything of another call.
C19_IndependentCalls ==
    /\ [](\A t \in Threads :
            /\ Len(sent[t]) <= 1
            /\ sent[t] # <<>> => OwnRequest(t)
            /\ OwnOutcome(t)
            /\ \A u \in Threads :
                 ( /\ call[t] = call[u] /\ response[t] = response[u]
                   /\ pc[t] = pc[u] )
                 => outcome[t] = outcome[u] /\ sent[t] = sent[u])
    /\ [][OneCallSteps]_vars

\* two calls in flight at once with different arguments: one has failed on
\* a network error, the other has returned its response
C19_Witness ==
    \E t, u \in Threads :
        /\ t # u
        /\ call[t].op = "send_email" /\ call[u].op = "send_email"
        /\ call[t].args # call[u].args
        /\ RaisedClass(t, "RequestError")
        /\ pc[u] = "returned" /\ outcome[u].kind = "return"
        /\ Len(sent[t]) = 1 /\ Len(sent[u]) = 1
        /\ sent[t] # sent[u]

====
